---- MODULE Spec2Model ----
(***************************************************************************)
(* Model of src/driver/panda.c: the SocketCAN driver of the Panda CAN      *)
(* adapter.  The state is struct panda_priv (the TX context pool, the free *)
(* counter, the two URB anchors), the bits of the net_device the driver    *)
(* reads and writes (present, queue stopped, statistics, can.state) and    *)
(* the position of each execution context: the transmit path               *)
(* (ndo_start_xmit, serialised by the stack's TX lock), the TX completion  *)
(* handlers (one per URB given back, running concurrently with the         *)
(* transmit path and with each other), the RX completion handler and the   *)
(* open/close path.                                                        *)
(*                                                                         *)
(* What the kernel does around the driver's code is stated where it is     *)
(* used:                                                                   *)
(*   - the stack calls ndo_start_xmit only while the interface is running  *)
(*     and the queue is not stopped, one call at a time; it does not look  *)
(*     at netif_device_present;                                            *)
(*   - dev_open refuses a device that is not present; dev_close first      *)
(*     deactivates the TX path (no ndo_start_xmit is running or starts);   *)
(*   - the USB core takes an URB off its anchor when it gives it back,     *)
(*     before the completion handler runs; usb_kill_anchored_urbs kills    *)
(*     the URBs that are on the anchor and waits for their handlers, and   *)
(*     for the handlers of that anchor already running, to return;         *)
(*   - netif_device_detach clears the present bit and, when the interface  *)
(*     is running, stops the queue; netif_wake_queue restarts a stopped    *)
(*     queue.                                                              *)
(***************************************************************************)
EXTENDS Integers, FiniteSets, Sequences, TLC

\* #define PANDA_MAX_TX_URBS 20: the pool's capacity, scaled down so that
\* every interleaving of the pool's steps can be enumerated.
PANDA_MAX_TX_URBS == 2
\* #define PANDA_CTX_FREE PANDA_MAX_TX_URBS
PANDA_CTX_FREE == PANDA_MAX_TX_URBS
\* #define PANDA_USB_RX_BUFF_SIZE 0x40
PANDA_USB_RX_BUFF_SIZE == 64
\* sizeof(struct panda_usb_can_msg): u32 + u32 + u8[8], packed
MSG_SIZE == 16

\* Number of calls of ndo_start_xmit in one run.
MaxFrames == 3
\* Number of calls of ndo_open in one run.
MaxOpens == 2
\* Cap of the rx_packets statistic.
MaxRxPackets == 2

Slots == 0 .. (PANDA_MAX_TX_URBS - 1)
\* struct panda_usb_ctx *ctx = NULL
NULL == 0 - 1
\* urb->actual_length of a read completion: empty, a partial message, one
\* message, two messages and a partial one, a full buffer.  (The only reads
\* taken are those whose messages rx_packets can still count.)
RxLens == {0, MSG_SIZE - 1, MSG_SIZE, 2 * MSG_SIZE + 1, PANDA_USB_RX_BUFF_SIZE}

VARIABLES
  life,          \* "unbound" | "probe_failed" | "down" | "up" | "close_rx" | "close_tx"
  can_state,     \* priv->can.state
  present,       \* netif_device_present(netdev)
  queue_stopped, \* netif_queue_stopped(netdev)
  ndx,           \* priv->tx_context[i].ndx
  free_ctx_cnt,  \* priv->free_ctx_cnt
  holders,       \* per slot: handles handed out by acquire and not yet released
  tx_inflight,   \* per slot: submitted TX URBs whose urb->context is the slot
  cb_stage,      \* per slot: the TX completion handler working on the slot
  wake_pending,  \* TX completion handlers that marked their slot free and have
                 \* not yet called netif_wake_queue
  pc_x,          \* position of panda_usb_start_xmit
  x_i,           \* the loop index i of panda_usb_get_free_ctx
  x_ctx,         \* the ctx panda_usb_get_free_ctx returns
  rx,            \* the read URB: "none" | "submitted"
  rx_anchored,   \* the read URB is on priv->rx_submitted
  rx_status,     \* urb->status of the read URB the last time it was given back
  tx_packets, tx_dropped, rx_packets,  \* netdev->stats
  xmits,         \* calls of ndo_start_xmit so far
  opens,         \* calls of ndo_open so far
  oops,          \* the transmit path dereferenced a NULL ctx
  big_endian,    \* the build is for a big-endian CPU (__BIG_ENDIAN)
  codec_pc,      \* position of the codec run: "frame" | "encoded" | "read" | "parsed"
  tx_cf,         \* the struct can_frame handed to panda_usb_start_xmit
  usb_msg,       \* the bytes of struct panda_usb_can_msg usb_msg after line 428
  rx_buf,        \* the bytes of priv->rx_buf after a read
  rx_len,        \* urb->actual_length of that read
  rx_skb,        \* per message handed to panda_usb_process_can_rx: alloc_can_skb succeeded
  rx_frames      \* the frames handed to netif_rx, in the order of the calls

driverVars == <<life, can_state, present, queue_stopped, ndx, free_ctx_cnt, holders,
                tx_inflight, cb_stage, wake_pending, pc_x, x_i, x_ctx, rx,
                rx_anchored, rx_status, tx_packets, tx_dropped, rx_packets, xmits,
                opens, oops>>
codecVars == <<big_endian, codec_pc, tx_cf, usb_msg, rx_buf, rx_len, rx_skb, rx_frames>>
vars == <<driverVars, codecVars>>

poolVars == <<ndx, free_ctx_cnt, holders>>
cbVars == <<tx_inflight, cb_stage, wake_pending>>
xVars == <<pc_x, x_i, x_ctx>>
rxVars == <<rx, rx_anchored, rx_status, rx_packets>>
lifeVars == <<life, can_state, opens>>

FreeSlots == {i \in Slots : ndx[i] = PANDA_CTX_FREE}

\* alloc_candev zero-fills struct panda_priv; register_candev sets the
\* present bit, so the device counts as present from probe on.
DriverInit ==
  /\ life = "unbound"
  /\ can_state = "STOPPED"
  /\ present = TRUE
  /\ queue_stopped = FALSE
  /\ ndx = [i \in Slots |-> 0]
  /\ free_ctx_cnt = 0
  /\ holders = [i \in Slots |-> 0]
  /\ tx_inflight = [i \in Slots |-> 0]
  /\ cb_stage = [i \in Slots |-> "none"]
  /\ wake_pending = 0
  /\ pc_x = "idle"
  /\ x_i = 0
  /\ x_ctx = NULL
  /\ rx = "none"
  /\ rx_anchored = FALSE
  /\ rx_status = "OK"
  /\ tx_packets = 0
  /\ tx_dropped = 0
  /\ rx_packets = 0
  /\ xmits = 0
  /\ opens = 0
  /\ oops = FALSE

\* netif_running(netdev): __LINK_STATE_START, set by dev_open before ndo_open
\* and cleared by dev_close before ndo_stop.
netif_running == life = "up"

\* netif_device_detach(netdev)
netif_device_detach ==
  /\ present' = FALSE
  /\ queue_stopped' = IF present /\ netif_running THEN TRUE ELSE queue_stopped

(***************************************************************************)
(* The context pool: panda_init_ctx, panda_usb_get_free_ctx,               *)
(* panda_usb_free_ctx.                                                     *)
(***************************************************************************)

\* panda_init_ctx: every slot free, the counter at the pool's capacity.
panda_init_ctx ==
  /\ ndx' = [i \in Slots |-> PANDA_CTX_FREE]
  /\ free_ctx_cnt' = PANDA_MAX_TX_URBS
  /\ UNCHANGED holders

\* panda_usb_free_ctx, line 113: atomic_inc(&ctx->priv->free_ctx_cnt)
free_ctx_inc ==
  free_ctx_cnt' = free_ctx_cnt + 1

\* panda_usb_free_ctx, line 115: ctx->ndx = PANDA_CTX_FREE
free_ctx_mark(i) ==
  /\ ndx' = [ndx EXCEPT ![i] = PANDA_CTX_FREE]
  /\ holders' = [holders EXCEPT ![i] = @ - 1]

\* Mutant of free_ctx_wake: the queue is woken only by the release that
\* makes the first slot free.
free_ctx_wake_IfFirst ==
  queue_stopped' = IF free_ctx_cnt = 1 THEN FALSE ELSE queue_stopped

\* panda_usb_free_ctx, line 118: netif_wake_queue(ctx->priv->netdev)
free_ctx_wake ==
  queue_stopped' = FALSE

\* Mutant of GetFreeCtxScan: the slot taken is not marked busy (line 89
\* left out).
GetFreeCtxScan_NoMark ==
  /\ pc_x = "scan"
  /\ IF x_i = PANDA_MAX_TX_URBS
       THEN /\ pc_x' = "read"
            /\ x_i' = 0
            /\ UNCHANGED <<x_ctx, holders>>
       ELSE IF ndx[x_i] = PANDA_CTX_FREE
         THEN /\ holders' = [holders EXCEPT ![x_i] = @ + 1]
              /\ x_ctx' = x_i
              /\ x_i' = 0
              /\ pc_x' = "dec"
         ELSE /\ x_i' = x_i + 1
              /\ UNCHANGED <<pc_x, x_ctx, holders>>
  /\ UNCHANGED codecVars
  /\ UNCHANGED <<ndx, free_ctx_cnt, queue_stopped, present, cbVars, rxVars, lifeVars,
                 tx_packets, tx_dropped, xmits, oops>>

\* panda_usb_get_free_ctx, one iteration of the loop of lines 86-95: the
\* loop ends without a slot, or slot x_i is free and is taken (its ndx set),
\* or it is busy and the loop goes on.
GetFreeCtxScan ==
  /\ pc_x = "scan"
  /\ IF x_i = PANDA_MAX_TX_URBS
       THEN /\ pc_x' = "read"
            /\ x_i' = 0
            /\ UNCHANGED <<x_ctx, ndx, holders>>
       ELSE IF ndx[x_i] = PANDA_CTX_FREE
         THEN /\ ndx' = [ndx EXCEPT ![x_i] = x_i]
              /\ holders' = [holders EXCEPT ![x_i] = @ + 1]
              /\ x_ctx' = x_i
              /\ x_i' = 0
              /\ pc_x' = "dec"
         ELSE /\ x_i' = x_i + 1
              /\ UNCHANGED <<pc_x, x_ctx, ndx, holders>>
  /\ UNCHANGED codecVars
  /\ UNCHANGED <<free_ctx_cnt, queue_stopped, present, cbVars, rxVars, lifeVars,
                 tx_packets, tx_dropped, xmits, oops>>

\* panda_usb_get_free_ctx, line 92: atomic_dec(&priv->free_ctx_cnt)
GetFreeCtxDec ==
  /\ pc_x = "dec"
  /\ free_ctx_cnt' = free_ctx_cnt - 1
  /\ pc_x' = "read"
  /\ UNCHANGED codecVars
  /\ UNCHANGED <<ndx, holders, x_i, x_ctx, queue_stopped, present, cbVars, rxVars,
                 lifeVars, tx_packets, tx_dropped, xmits, oops>>

\* Mutant of GetFreeCtxRead: the test is that of a check made before the
\* reservation (one slot left), applied after it.
GetFreeCtxRead_OneLeft ==
  /\ pc_x = "read"
  /\ pc_x' = IF free_ctx_cnt <= 1 THEN "stop" ELSE "xmit"
  /\ UNCHANGED codecVars
  /\ UNCHANGED <<poolVars, x_i, x_ctx, queue_stopped, present, cbVars, rxVars,
                 lifeVars, tx_packets, tx_dropped, xmits, oops>>

\* panda_usb_get_free_ctx, line 98: if (!atomic_read(&priv->free_ctx_cnt))
GetFreeCtxRead ==
  /\ pc_x = "read"
  /\ pc_x' = IF free_ctx_cnt = 0 THEN "stop" ELSE "xmit"
  /\ UNCHANGED codecVars
  /\ UNCHANGED <<poolVars, x_i, x_ctx, queue_stopped, present, cbVars, rxVars,
                 lifeVars, tx_packets, tx_dropped, xmits, oops>>

\* panda_usb_get_free_ctx, line 101: netif_stop_queue(priv->netdev)
GetFreeCtxStop ==
  /\ pc_x = "stop"
  /\ queue_stopped' = TRUE
  /\ pc_x' = "xmit"
  /\ UNCHANGED codecVars
  /\ UNCHANGED <<poolVars, x_i, x_ctx, present, cbVars, rxVars, lifeVars,
                 tx_packets, tx_dropped, xmits, oops>>

(***************************************************************************)
(* The transmit path: panda_usb_start_xmit and panda_usb_xmit.             *)
(***************************************************************************)

\* What panda_usb_xmit can return: 0, -ENOMEM (usb_alloc_urb or
\* usb_alloc_coherent), -ENODEV or another error of usb_submit_urb.
XmitErrs == {"OK", "ENOMEM", "ENODEV", "EIO"}

\* panda_usb_start_xmit, lines 409-412: can_dropped_invalid_skb frees the
\* skb and counts it in tx_dropped; the driver returns NETDEV_TX_OK.
StartXmitInvalid ==
  /\ life = "up" /\ pc_x = "idle" /\ ~queue_stopped
  /\ xmits < MaxFrames
  /\ xmits' = xmits + 1
  /\ tx_dropped' = tx_dropped + 1
  /\ UNCHANGED codecVars
  /\ UNCHANGED <<poolVars, xVars, queue_stopped, present, cbVars, rxVars, lifeVars,
                 tx_packets, oops>>

\* panda_usb_start_xmit, line 414: the call of panda_usb_get_free_ctx.
StartXmitEnter ==
  /\ life = "up" /\ pc_x = "idle" /\ ~queue_stopped
  /\ xmits < MaxFrames
  /\ xmits' = xmits + 1
  /\ pc_x' = "scan"
  /\ x_i' = 0
  /\ x_ctx' = NULL
  /\ UNCHANGED codecVars
  /\ UNCHANGED <<poolVars, queue_stopped, present, cbVars, rxVars, lifeVars,
                 tx_packets, tx_dropped, oops>>

\* Mutant of panda_usb_xmit: a failed usb_submit_urb leaves the URB queued
\* (its handler will run) and still returns the error.
panda_usb_xmit_LeavesUrb(err) ==
  /\ tx_inflight' = IF err \in {"OK", "EIO"}
                      THEN [tx_inflight EXCEPT ![x_ctx] = @ + 1]
                      ELSE tx_inflight
  /\ IF err = "ENODEV"
       THEN netif_device_detach
       ELSE UNCHANGED <<present, queue_stopped>>

\* panda_usb_xmit with result err, lines 169-221: on 0 the URB is anchored and
\* submitted with ctx as its context; on -ENODEV the device is detached.
panda_usb_xmit(err) ==
  /\ tx_inflight' = IF err = "OK"
                      THEN [tx_inflight EXCEPT ![x_ctx] = @ + 1]
                      ELSE tx_inflight
  /\ IF err = "ENODEV"
       THEN netif_device_detach
       ELSE UNCHANGED <<present, queue_stopped>>

\* panda_usb_start_xmit, lines 418-440: ctx->ndx is read for
\* can_put_echo_skb (a NULL ctx is dereferenced), the message is encoded and
\* handed to panda_usb_xmit.
StartXmitSubmit(err) ==
  /\ pc_x = "xmit"
  /\ IF x_ctx = NULL
       THEN /\ oops' = TRUE
            /\ pc_x' = "oops"
            /\ UNCHANGED <<x_ctx, tx_inflight, present, queue_stopped>>
       ELSE /\ panda_usb_xmit(err)
            /\ pc_x' = IF err = "OK" THEN "idle" ELSE "fail_inc"
            /\ x_ctx' = IF err = "OK" THEN NULL ELSE x_ctx
            /\ UNCHANGED oops
  /\ UNCHANGED codecVars
  /\ UNCHANGED <<poolVars, x_i, cb_stage, wake_pending, rxVars, lifeVars,
                 tx_packets, tx_dropped, xmits>>

\* panda_usb_start_xmit, xmit_failed, line 444: panda_usb_free_ctx(ctx),
\* its first step.
StartXmitFailInc ==
  /\ pc_x = "fail_inc"
  /\ free_ctx_inc
  /\ pc_x' = "fail_free"
  /\ UNCHANGED codecVars
  /\ UNCHANGED <<ndx, holders, x_i, x_ctx, queue_stopped, present, cbVars, rxVars,
                 lifeVars, tx_packets, tx_dropped, xmits, oops>>

\* xmit_failed: panda_usb_free_ctx(ctx), its second step.
StartXmitFailMark ==
  /\ pc_x = "fail_free"
  /\ free_ctx_mark(x_ctx)
  /\ pc_x' = "fail_wake"
  /\ UNCHANGED codecVars
  /\ UNCHANGED <<free_ctx_cnt, x_i, x_ctx, queue_stopped, present, cbVars, rxVars,
                 lifeVars, tx_packets, tx_dropped, xmits, oops>>

\* xmit_failed: the last step of panda_usb_free_ctx(ctx), then lines
\* 445-448: the skb is freed, stats->tx_dropped++, return NETDEV_TX_OK.
StartXmitFailWake ==
  /\ pc_x = "fail_wake"
  /\ free_ctx_wake
  /\ tx_dropped' = tx_dropped + 1
  /\ pc_x' = "idle"
  /\ x_ctx' = NULL
  /\ UNCHANGED codecVars
  /\ UNCHANGED <<poolVars, x_i, present, cbVars, rxVars, lifeVars, tx_packets,
                 xmits, oops>>

(***************************************************************************)
(* TX completion: panda_usb_write_bulk_callback.                           *)
(***************************************************************************)

\* The USB core gives back the TX URB of slot i (completed, failed or
\* killed: urb->status only selects a log line) and the handler runs lines
\* 142-162: it returns at once when the device is not present, else it
\* counts the frame and goes on to panda_usb_free_ctx(ctx).
panda_usb_write_bulk_callback(i) ==
  /\ tx_inflight[i] > 0
  /\ cb_stage[i] = "none"
  /\ tx_inflight' = [tx_inflight EXCEPT ![i] = @ - 1]
  /\ IF present
       THEN /\ tx_packets' = tx_packets + 1
            /\ cb_stage' = [cb_stage EXCEPT ![i] = "inc"]
       ELSE UNCHANGED <<tx_packets, cb_stage>>
  /\ UNCHANGED codecVars
  /\ UNCHANGED <<poolVars, xVars, queue_stopped, present, wake_pending, rxVars,
                 lifeVars, tx_dropped, xmits, oops>>

\* The handler's panda_usb_free_ctx(ctx), line 113.
WriteCallbackInc(i) ==
  /\ cb_stage[i] = "inc"
  /\ free_ctx_inc
  /\ cb_stage' = [cb_stage EXCEPT ![i] = "free"]
  /\ UNCHANGED codecVars
  /\ UNCHANGED <<ndx, holders, xVars, queue_stopped, present, tx_inflight,
                 wake_pending, rxVars, lifeVars, tx_packets, tx_dropped, xmits, oops>>

\* The handler's panda_usb_free_ctx(ctx), line 115.
WriteCallbackMark(i) ==
  /\ cb_stage[i] = "free"
  /\ free_ctx_mark(i)
  /\ cb_stage' = [cb_stage EXCEPT ![i] = "none"]
  /\ wake_pending' = wake_pending + 1
  /\ UNCHANGED codecVars
  /\ UNCHANGED <<free_ctx_cnt, xVars, queue_stopped, present, tx_inflight, rxVars,
                 lifeVars, tx_packets, tx_dropped, xmits, oops>>

\* The handler's panda_usb_free_ctx(ctx), line 118, and its return.
WriteCallbackWake ==
  /\ wake_pending > 0
  /\ free_ctx_wake
  /\ wake_pending' = wake_pending - 1
  /\ UNCHANGED codecVars
  /\ UNCHANGED <<poolVars, xVars, present, tx_inflight, cb_stage, rxVars, lifeVars,
                 tx_packets, tx_dropped, xmits, oops>>

(***************************************************************************)
(* RX: panda_usb_read_int_callback and panda_usb_start.                    *)
(***************************************************************************)

\* Mutant of RxLoop: the loop stops when the message at pos ends at or
\* beyond the end of the read (>= for > at line 282).
RECURSIVE RxLoop_StopsEarly(_, _, _)
RxLoop_StopsEarly(pos, len, n) ==
  IF pos < len
    THEN IF pos + MSG_SIZE >= len
           THEN n
           ELSE RxLoop_StopsEarly(pos + MSG_SIZE, len, n + 1)
    ELSE n

\* The loop of lines 279-293: the number of messages handed to
\* panda_usb_process_can_rx for a read of len bytes, from position pos with
\* n messages handed over so far.
RECURSIVE RxLoop(_, _, _)
RxLoop(pos, len, n) ==
  IF pos < len
    THEN IF pos + MSG_SIZE > len
           THEN n
           ELSE RxLoop(pos + MSG_SIZE, len, n + 1)
    ELSE n

\* urb->status of a read the USB core gives back on its own account.
RxStatuses == {"OK", "EPROTO", "ESHUTDOWN"}
\* The result of usb_submit_urb at line 301.
ResubmitErrs == {"OK", "ENODEV", "EIO"}

\* panda_usb_read_int_callback for a read given back with this status and
\* actual_length, whose usb_submit_urb at line 301 returns resub.  The USB
\* core has taken the URB off priv->rx_submitted before the handler runs,
\* and the handler submits it again without usb_anchor_urb.
panda_usb_read_int_callback(status, len, resub) ==
  /\ rx_anchored' = FALSE
  /\ rx_status' = status
  /\ IF ~present \/ status \in {"ENOENT", "ESHUTDOWN"}
       THEN /\ rx' = "none"
            /\ UNCHANGED <<rx_packets, present, queue_stopped>>
       ELSE /\ rx_packets' = rx_packets + (IF status = "OK" THEN RxLoop(0, len, 0) ELSE 0)
            /\ rx' = IF resub = "OK" THEN "submitted" ELSE "none"
            /\ IF resub = "ENODEV"
                 THEN netif_device_detach
                 ELSE UNCHANGED <<present, queue_stopped>>

\* The USB core gives back the read URB.
RxGiveback(status, len, resub) ==
  /\ life \in {"down", "up", "close_rx", "close_tx"}
  /\ rx = "submitted"
  /\ panda_usb_read_int_callback(status, len, resub)
  /\ rx_packets' <= MaxRxPackets
  /\ UNCHANGED codecVars
  /\ UNCHANGED <<poolVars, xVars, cbVars, lifeVars, tx_packets, tx_dropped, xmits, oops>>

\* panda_usb_start returning err: the pool is initialised first; the read
\* URB is anchored on priv->rx_submitted and submitted when nothing fails.
panda_usb_start(err) ==
  /\ panda_init_ctx
  /\ rx' = IF err = "OK" THEN "submitted" ELSE "none"
  /\ rx_anchored' = (err = "OK")

(***************************************************************************)
(* Lifecycle: panda_usb_probe, panda_usb_open, panda_usb_close.            *)
(***************************************************************************)

ProbeOutcomes == {"register_failed", "start_failed", "enable_failed", "ok"}

\* panda_usb_probe: register_candev, panda_usb_start, then
\* panda_set_output_enable; a failure of any of the three unregisters and
\* frees the candev (cleanup_unregister_candev, cleanup_free_candev).
panda_usb_probe(outcome) ==
  /\ life = "unbound"
  /\ IF outcome = "register_failed"
       THEN UNCHANGED <<poolVars, rx, rx_anchored>>
       ELSE panda_usb_start(IF outcome = "start_failed" THEN "EIO" ELSE "OK")
  /\ life' = IF outcome = "ok" THEN "down" ELSE "probe_failed"
  /\ UNCHANGED codecVars
  /\ UNCHANGED <<can_state, opens, present, queue_stopped, xVars, cbVars, rx_status,
                 rx_packets, tx_packets, tx_dropped, xmits, oops>>

\* panda_usb_open: open_candev succeeds (the bitrate is set in probe), the
\* state becomes CAN_STATE_ERROR_ACTIVE, netif_start_queue.
panda_usb_open ==
  /\ can_state' = "ERROR_ACTIVE"
  /\ queue_stopped' = FALSE
  /\ life' = "up"

\* .ndo_open = panda_usb_open, called by dev_open on an interface that is
\* down; dev_open returns -ENODEV before it for a device that is not
\* present.
DevOpen ==
  /\ life = "down"
  /\ present
  /\ opens < MaxOpens
  /\ opens' = opens + 1
  /\ panda_usb_open
  /\ UNCHANGED codecVars
  /\ UNCHANGED <<poolVars, xVars, cbVars, rxVars, present, tx_packets, tx_dropped,
                 xmits, oops>>

\* panda_usb_close, lines 386-388: the state becomes CAN_STATE_STOPPED,
\* netif_stop_queue.  dev_close has waited for the transmit path to return.
CloseBegin ==
  /\ life = "up"
  /\ pc_x = "idle"
  /\ can_state' = "STOPPED"
  /\ queue_stopped' = TRUE
  /\ life' = "close_rx"
  /\ UNCHANGED codecVars
  /\ UNCHANGED <<opens, poolVars, xVars, cbVars, rxVars, present, tx_packets,
                 tx_dropped, xmits, oops>>

\* panda_urb_unlink, line 125: usb_kill_anchored_urbs(&priv->rx_submitted)
\* kills the read URB when it is on the anchor: its handler runs with
\* -ENOENT.
CloseKillRx ==
  /\ life = "close_rx"
  /\ IF rx = "submitted" /\ rx_anchored
       THEN panda_usb_read_int_callback("ENOENT", 0, "OK")
       ELSE UNCHANGED <<rx, rx_anchored, rx_status, rx_packets, present, queue_stopped>>
  /\ life' = "close_tx"
  /\ UNCHANGED codecVars
  /\ UNCHANGED <<can_state, opens, poolVars, xVars, cbVars, tx_packets, tx_dropped,
                 xmits, oops>>

\* Mutant of CloseEnd: the TX URBs are unlinked without waiting for their
\* handlers (usb_unlink_anchored_urbs in place of usb_kill_anchored_urbs).
CloseEnd_NoWait ==
  /\ life = "close_tx"
  /\ life' = "down"
  /\ UNCHANGED codecVars
  /\ UNCHANGED <<can_state, opens, poolVars, xVars, cbVars, rxVars, present,
                 queue_stopped, tx_packets, tx_dropped, xmits, oops>>

\* panda_urb_unlink, line 126, and close_candev: every TX URB on
\* priv->tx_submitted is killed (TX URBs are anchored when submitted and
\* never submitted again), and usb_kill_anchored_urbs returns when their
\* handlers have returned.
CloseEnd ==
  /\ life = "close_tx"
  /\ \A i \in Slots : tx_inflight[i] = 0 /\ cb_stage[i] = "none"
  /\ wake_pending = 0
  /\ life' = "down"
  /\ UNCHANGED codecVars
  /\ UNCHANGED <<can_state, opens, poolVars, xVars, cbVars, rxVars, present,
                 queue_stopped, tx_packets, tx_dropped, xmits, oops>>

(***************************************************************************)
(* The codec: lines 420-428 of panda_usb_start_xmit (a can_frame to the    *)
(* bytes of struct panda_usb_can_msg) and panda_usb_process_can_rx (the    *)
(* bytes of one message of the read buffer to a can_frame), with the loop  *)
(* of panda_usb_read_int_callback over the read buffer.  A u32 is the      *)
(* function from bit position (0 is the least significant bit) to bit.     *)
(***************************************************************************)

Bits == 0 .. 31
\* The u32 of a number below 2^31.
Word(n) == [i \in Bits |-> IF i = 31 THEN 0 ELSE (n \div 2^i) % 2]
\* a & b, a | b, a << k, a >> k on u32
BitAnd(a, b) == [i \in Bits |-> a[i] * b[i]]
BitOr(a, b) == [i \in Bits |-> IF a[i] = 1 \/ b[i] = 1 THEN 1 ELSE 0]
Shl(a, k) == [i \in Bits |-> IF i >= k THEN a[i - k] ELSE 0]
Shr(a, k) == [i \in Bits |-> IF i + k <= 31 THEN a[i + k] ELSE 0]
\* a != 0, as the condition of an if
NonZero(a) == \E i \in Bits : a[i] = 1
\* Byte j of a u32, byte 0 the least significant.
ByteOf(a, j) ==
  a[8 * j] + 2 * a[8 * j + 1] + 4 * a[8 * j + 2] + 8 * a[8 * j + 3]
    + 16 * a[8 * j + 4] + 32 * a[8 * j + 5] + 64 * a[8 * j + 6] + 128 * a[8 * j + 7]
\* The u32 whose bytes, least significant first, are bs.
WordOfBytes(bs) == [i \in Bits |-> (bs[(i \div 8) + 1] \div 2^(i % 8)) % 2]
\* swab32
swab32(a) == [i \in Bits |-> a[8 * (3 - (i \div 8)) + (i % 8)]]
\* cpu_to_le32: the identity on a little-endian build, swab32 on a
\* big-endian one.
cpu_to_le32(a) == IF big_endian THEN swab32(a) ELSE a
\* The four bytes a u32 member occupies in memory, lowest address first, and
\* the u32 a load of four bytes of memory gives.
Store32(a) ==
  IF big_endian
    THEN <<ByteOf(a, 3), ByteOf(a, 2), ByteOf(a, 1), ByteOf(a, 0)>>
    ELSE <<ByteOf(a, 0), ByteOf(a, 1), ByteOf(a, 2), ByteOf(a, 3)>>
Load32(bs) ==
  IF big_endian
    THEN WordOfBytes(<<bs[4], bs[3], bs[2], bs[1]>>)
    ELSE WordOfBytes(bs)

\* #define PANDA_CAN_TRANSMIT 1
PANDA_CAN_TRANSMIT == 1
\* #define PANDA_CAN_EXTENDED 4
PANDA_CAN_EXTENDED == 4
\* #define PANDA_DLC_MASK 0x0F
PANDA_DLC_MASK == 15
\* CAN_MAX_DLC of linux/can.h, the bound get_can_dlc clamps to
CAN_MAX_DLC == 8
\* CAN_EFF_FLAG of linux/can.h: 0x80000000U
CAN_EFF_FLAG == [i \in Bits |-> IF i = 31 THEN 1 ELSE 0]

\* struct can_frame: can_id (u32), can_dlc (u8), data[8]
Frame(can_id, can_dlc, data) == [can_id |-> can_id, can_dlc |-> can_dlc, data |-> data]
\* The payload of the frames sent: can_dlc bytes, the rest of data[] zero.
Payload(dlc) == [j \in 1 .. 8 |-> IF j <= dlc THEN 17 * j ELSE 0]
\* Identifiers and lengths of the frames sent: 0x123 and the largest
\* identifier of each format; no data, some data, all eight bytes.
StdIds == {291, 2047}
ExtIds == {291, 536870911}
FrameDlcs == {0, 3, CAN_MAX_DLC}
\* The frames can_dropped_invalid_skb lets through, of both formats.
ValidFrames ==
  {Frame(Word(id), dlc, Payload(dlc)) : id \in StdIds, dlc \in FrameDlcs}
    \cup {Frame(BitOr(Word(id), CAN_EFF_FLAG), dlc, Payload(dlc)) : id \in ExtIds, dlc \in FrameDlcs}

\* Lines 420-428: the bytes of usb_msg for the frame cf.  usb_msg is
\* zero-initialised, bus is the local 'int bus = 0'.
EncodeFrame(cf) ==
  LET bus == 0
      rir == IF NonZero(BitAnd(cf.can_id, CAN_EFF_FLAG))
               THEN cpu_to_le32(BitOr(BitOr(Shl(BitAnd(cf.can_id, Word(536870911)), 3),
                                            Word(PANDA_CAN_TRANSMIT)),
                                      Word(PANDA_CAN_EXTENDED)))
               ELSE cpu_to_le32(BitOr(Shl(BitAnd(cf.can_id, Word(2047)), 21),
                                      Word(PANDA_CAN_TRANSMIT)))
      bus_dat_len == cpu_to_le32(BitOr(BitAnd(Word(cf.can_dlc), Word(15)),
                                       Shl(Word(bus), 4)))
      data == [j \in 1 .. 8 |-> IF j <= cf.can_dlc THEN cf.data[j] ELSE 0]
  IN  Store32(rir) \o Store32(bus_dat_len) \o data

\* Mutant of get_can_dlc: the length is taken as it comes.
get_can_dlc_NoClamp(i) == i

\* get_can_dlc(i): min_t(u8, i, CAN_MAX_DLC)
get_can_dlc(i) == IF i < CAN_MAX_DLC THEN i ELSE CAN_MAX_DLC

\* panda_usb_process_can_rx after a successful alloc_can_skb (which zeroes
\* the frame): the can_frame for the MSG_SIZE bytes msg.  The members rir
\* and bus_dat_len are loaded as they lie in memory, with no le32_to_cpu.
panda_usb_process_can_rx(msg) ==
  LET rir == Load32(SubSeq(msg, 1, 4))
      bus_dat_len == Load32(SubSeq(msg, 5, 8))
      can_id == IF NonZero(BitAnd(rir, Word(PANDA_CAN_EXTENDED)))
                  THEN BitOr(Shr(rir, 3), CAN_EFF_FLAG)
                  ELSE Shr(rir, 21)
      can_dlc == get_can_dlc(ByteOf(BitAnd(bus_dat_len, Word(PANDA_DLC_MASK)), 0))
  IN  Frame(can_id, can_dlc, [j \in 1 .. 8 |-> IF j <= can_dlc THEN msg[8 + j] ELSE 0])

\* The k-th message of a read buffer: msg = (struct panda_usb_can_msg *)
\* &priv->rx_buf[pos] with pos = (k - 1) * sizeof(struct panda_usb_can_msg).
MsgAt(buf, k) == SubSeq(buf, (k - 1) * MSG_SIZE + 1, k * MSG_SIZE)

\* panda_usb_start_xmit, lines 420-428, for the frame tx_cf.
XmitEncode ==
  /\ codec_pc = "frame"
  /\ usb_msg' = EncodeFrame(tx_cf)
  /\ codec_pc' = "encoded"
  /\ UNCHANGED <<driverVars, big_endian, tx_cf, rx_buf, rx_len, rx_skb, rx_frames>>

\* The values of the low and of the high byte of bus_dat_len in the
\* messages the adapter sends on its own account.
DlcFields == {0, 7, 8, 9, 15, 31}
\* A message from the adapter: an identifier, a length field whose lowest
\* and highest byte are v, eight non-zero data bytes.
AdapterMsg(v) == <<12, 34, 56, 78, v, 0, 0, v, 161, 162, 163, 164, 165, 166, 167, 168>>
\* The contents of the PANDA_USB_RX_BUFF_SIZE bytes of priv->rx_buf after a
\* read: the message sent before and messages of the adapter, in turn.
ReadBuffers ==
  LET msgs == {usb_msg} \cup {AdapterMsg(v) : v \in DlcFields}
  IN  {a \o b \o a \o b : a \in msgs, b \in msgs}

\* A read completes with status 0: the device wrote buf to priv->rx_buf and
\* len is urb->actual_length.
ReadArrives(buf, len) ==
  /\ codec_pc = "encoded"
  /\ rx_buf' = buf
  /\ rx_len' = len
  /\ codec_pc' = "read"
  /\ UNCHANGED <<driverVars, big_endian, tx_cf, usb_msg, rx_skb, rx_frames>>

\* The frames handed to netif_rx for messages k .. n of rx_buf, after those
\* of acc: panda_usb_process_can_rx returns at line 233 without a frame when
\* alloc_can_skb fails.
RECURSIVE ParseFrom(_, _, _, _)
ParseFrom(k, n, skbs, acc) ==
  IF k > n
    THEN acc
    ELSE ParseFrom(k + 1, n, skbs,
                   IF skbs[k]
                     THEN Append(acc, panda_usb_process_can_rx(MsgAt(rx_buf, k)))
                     ELSE acc)

\* The outcomes of alloc_can_skb for the messages of the read.
SkbOutcomes == [1 .. RxLoop(0, rx_len, 0) -> BOOLEAN]

\* panda_usb_read_int_callback, lines 279-293, for the read in rx_buf:
\* every message the loop reaches goes to panda_usb_process_can_rx.
ReadParse(skbs) ==
  /\ codec_pc = "read"
  /\ rx_skb' = skbs
  /\ rx_frames' = ParseFrom(1, RxLoop(0, rx_len, 0), skbs, <<>>)
  /\ codec_pc' = "parsed"
  /\ UNCHANGED <<driverVars, big_endian, tx_cf, usb_msg, rx_buf, rx_len>>

\* The codec at rest: no frame has been encoded, no read has arrived.
CodecIdle ==
  /\ codec_pc = "frame"
  /\ usb_msg = <<>>
  /\ rx_buf = <<>>
  /\ rx_len = 0
  /\ rx_skb = <<>>
  /\ rx_frames = <<>>

\* The driver's run: the codec stays at rest.
Init ==
  /\ DriverInit
  /\ CodecIdle
  /\ big_endian = FALSE
  /\ tx_cf = Frame(Word(0), 0, Payload(0))

\* The codec's run: a build of either byte order, a valid frame to send.
InitCodec ==
  /\ DriverInit
  /\ CodecIdle
  /\ big_endian \in BOOLEAN
  /\ tx_cf \in ValidFrames

\* A NULL dereference in the transmit path is a kernel oops: the transmit
\* path stays at "oops" (the task is killed with the TX lock held), the
\* completion handlers go on.
Next ==
  \/ \E outcome \in ProbeOutcomes : panda_usb_probe(outcome)
  \/ DevOpen
  \/ CloseBegin
  \/ CloseKillRx
  \/ CloseEnd
  \/ StartXmitInvalid
  \/ StartXmitEnter
  \/ GetFreeCtxScan
  \/ GetFreeCtxDec
  \/ GetFreeCtxRead
  \/ GetFreeCtxStop
  \/ \E err \in XmitErrs : StartXmitSubmit(err)
  \/ StartXmitFailInc
  \/ StartXmitFailMark
  \/ StartXmitFailWake
  \/ \E i \in Slots : panda_usb_write_bulk_callback(i)
  \/ \E i \in Slots : WriteCallbackInc(i)
  \/ \E i \in Slots : WriteCallbackMark(i)
  \/ WriteCallbackWake
  \/ \E status \in RxStatuses :
       \E len \in (IF status = "OK" THEN RxLens ELSE {0}) :
         \E resub \in (IF status = "ESHUTDOWN" THEN {"OK"} ELSE ResubmitErrs) :
           RxGiveback(status, len, resub)

Spec == Init /\ [][Next]_vars

\* The codec's run: one frame is encoded, one read arrives and is parsed.
NextCodec ==
  \/ XmitEncode
  \/ \E buf \in ReadBuffers : \E len \in RxLens : ReadArrives(buf, len)
  \/ \E skbs \in SkbOutcomes : ReadParse(skbs)

SpecCodec == InitCodec /\ [][NextCodec]_vars

(***************************************************************************)
(* Properties.                                                             *)
(***************************************************************************)

\* The transmit path holds the handle of slot i: from the acquire that took
\* it to the submission of its URB or its release.
ProducerHolds(i) ==
  x_ctx = i /\ pc_x \in {"dec", "read", "stop", "xmit", "fail_inc", "fail_free"}

\* A TX completion handler is running.
HandlerActive == wake_pending > 0 \/ \E i \in Slots : cb_stage[i] # "none"

\* The TX URBs in flight.
InFlight == {i \in Slots : tx_inflight[i] > 0}

\* Handlers that have incremented the counter and not yet marked their slot.
AtMark == {i \in Slots : cb_stage[i] = "free"}

\* C1: a slot handed out by acquire is not handed out again before release
\* was called for it (at most one live handle per slot), no slot is released
\* more often than it was acquired (never a negative number of handles), no
\* two in-flight transfers hold the same slot, every user of a slot (an
\* in-flight transfer, a running handler, the transmit path) has a live
\* handle of its own, and a free slot has no live handle.
C1_SlotExclusivity ==
  \A i \in Slots :
    /\ holders[i] \in {0, 1}
    /\ tx_inflight[i] <= 1
    /\ tx_inflight[i] + (IF cb_stage[i] # "none" THEN 1 ELSE 0)
         + (IF ProducerHolds(i) THEN 1 ELSE 0) <= holders[i]
    /\ (life # "unbound" /\ ndx[i] = PANDA_CTX_FREE) => holders[i] = 0

\* C1 witness: the pool is full again after a slot was released and handed
\* out a second time.
C1_Witness ==
  /\ xmits > PANDA_MAX_TX_URBS
  /\ tx_packets >= 1
  /\ \A i \in Slots : tx_inflight[i] = 1 /\ holders[i] = 1

\* C2 (as claimed): in every reachable state free_ctx_cnt is the number of
\* slots whose ndx is PANDA_CTX_FREE.
C2_CountMatchesFree ==
  free_ctx_cnt = Cardinality(FreeSlots)

\* No release has started yet: no completion was counted, no transmit
\* failed, no handler is running.
NoReleaseYet ==
  /\ tx_packets = 0
  /\ tx_dropped = 0
  /\ pc_x \notin {"fail_inc", "fail_free", "fail_wake"}
  /\ ~HandlerActive

\* C3: acquire signals pause exactly when the counter it reads after its
\* reservation is zero, and the pause is in effect when it returns; with no
\* completions, the acquire that takes the last free slot pauses and the
\* earlier ones do not; and once the pool is full that way the queue is
\* paused, so the stack attempts no further acquire.
C3_PauseOnLastSlot ==
  /\ [][(pc_x = "read" /\ pc_x' # "read")
          => /\ (pc_x' = "stop") <=> (free_ctx_cnt = 0)
             /\ NoReleaseYet => ((pc_x' = "stop") <=> (FreeSlots = {}))]_vars
  /\ [][(pc_x = "stop" /\ pc_x' # "stop") => queue_stopped']_vars
  /\ [][(pc_x = "idle" /\ pc_x' = "scan") => ~queue_stopped]_vars
  /\ []((NoReleaseYet /\ FreeSlots = {} /\ pc_x \in {"xmit", "idle"} /\ life = "up")
          => queue_stopped)

\* C3 witness: the acquire of the last free slot has paused the queue, with
\* no completion so far.
C3_Witness ==
  /\ pc_x = "xmit"
  /\ x_ctx # NULL
  /\ NoReleaseYet
  /\ FreeSlots = {}
  /\ xmits = PANDA_MAX_TX_URBS
  /\ present
  /\ queue_stopped

\* A release signals resume: a handler's or the transmit path's
\* netif_wake_queue.
WakeStep ==
  \/ wake_pending' = wake_pending - 1
  \/ (pc_x = "fail_wake" /\ pc_x' = "idle")

\* C4: every release signals resume unconditionally (the queue runs after
\* its last step); when the resume is signalled the release has incremented
\* the counter and marked its slot free (the counter accounts for every slot
\* freed by a release whose resume is pending); and a single completion
\* after the pool was filled, once its handler has released the slot (the
\* other slots still in flight), leaves free count 1, that one slot free
\* and the queue resumed.
C4_ResumeOnRelease ==
  /\ [][WakeStep => ~queue_stopped']_vars
  /\ [](((wake_pending > 0 \/ pc_x = "fail_wake") /\ pc_x \notin {"dec", "fail_free"})
          => free_ctx_cnt = Cardinality(FreeSlots) + Cardinality(AtMark))
  /\ [][(/\ wake_pending = 1 /\ wake_pending' = 0
         /\ pc_x = "idle" /\ queue_stopped
         /\ Cardinality(InFlight) = PANDA_MAX_TX_URBS - 1
         /\ FreeSlots = Slots \ InFlight
         /\ \A i \in Slots : cb_stage[i] = "none")
          => /\ free_ctx_cnt' = 1
             /\ {i \in Slots : ndx'[i] = PANDA_CTX_FREE} = FreeSlots
             /\ ~queue_stopped']_vars

\* C4 witness: the pool was filled and the queue paused, one transfer has
\* completed and its handler is about to signal resume.
C4_Witness ==
  /\ life = "up" /\ present
  /\ pc_x = "idle"
  /\ queue_stopped
  /\ xmits = PANDA_MAX_TX_URBS
  /\ tx_packets = 1
  /\ wake_pending = 1
  /\ Cardinality(InFlight) = PANDA_MAX_TX_URBS - 1
  /\ FreeSlots = Slots \ InFlight

\* C5 (as claimed): every TX completion ends by releasing its context: a
\* slot that no in-flight transfer, no running handler and no transmit call
\* refers to is free.
C5_CompletionReleases ==
  \A i \in Slots :
    (/\ life \notin {"unbound", "probe_failed"}
     /\ tx_inflight[i] = 0
     /\ cb_stage[i] = "none"
     /\ ~ProducerHolds(i))
      => ndx[i] = PANDA_CTX_FREE

\* C6: when panda_usb_xmit failed, the transmit path returns with the
\* context released (its slot free, no live handle), exactly one more drop
\* counted, no URB in flight or handler running for the slot, and the
\* counter restored with the slot.
C6_SubmitFailureReleases ==
  [][(pc_x = "fail_wake" /\ pc_x' = "idle")
       => /\ tx_dropped' = tx_dropped + 1
          /\ ndx'[x_ctx] = PANDA_CTX_FREE
          /\ holders'[x_ctx] = 0
          /\ tx_inflight'[x_ctx] = 0
          /\ cb_stage'[x_ctx] = "none"
          /\ free_ctx_cnt' = Cardinality({i \in Slots : ndx'[i] = PANDA_CTX_FREE})
                               + Cardinality({i \in Slots : cb_stage'[i] = "free"})]_vars

\* C6 witness: a submission failed with the device gone and the transmit
\* path has released the context.
C6_Witness ==
  /\ pc_x = "fail_wake"
  /\ ~present
  /\ ndx[x_ctx] = PANDA_CTX_FREE

\* C7 (as claimed): a transmit whose acquire found no slot leaves the pool
\* alone, submits nothing and reaches no crash state.
C7_NoSlotIsTransient ==
  [][(pc_x = "xmit" /\ x_ctx = NULL)
       => (~oops' /\ UNCHANGED <<poolVars, tx_inflight>>)]_vars

\* close() has returned and no open() followed.
Closed == life = "down" /\ opens > 0

\* C8 (as claimed): when close() has returned the device is Stopped and no
\* transfer is outstanding, so no completion handler runs afterwards.
C8_CloseCancelsAll ==
  Closed => /\ can_state = "STOPPED"
            /\ rx = "none"
            /\ InFlight = {}
            /\ ~HandlerActive

\* C9 (as claimed, for an open() that follows a close()): after open() the
\* device is Active and an RX transfer is outstanding.
C9_OpenStartsRx ==
  [][(Closed /\ life' = "up") => (can_state' = "ERROR_ACTIVE" /\ rx' = "submitted")]_vars

RxCompletionStep ==
  /\ rx = "submitted"
  /\ life' = life
  /\ rxVars' # rxVars

\* C11: a read completion on a device that has been closed or detached is
\* not followed by a resubmission: after the handler no read is outstanding.
C11_NoResubmitWhenClosed ==
  [][(RxCompletionStep /\ (Closed \/ ~present)) => rx' = "none"]_vars

\* C12: a read completion that reports a fatal device-gone status
\* (-ESHUTDOWN) is not resubmitted and raises the device-detach event: after
\* it no read is outstanding and the device is no longer present.
C12_FatalStatusDetaches ==
  [][(RxCompletionStep /\ rx_status' = "ESHUTDOWN") => (rx' = "none" /\ ~present')]_vars

\* C13: once a detach has been detected every outstanding TX and RX transfer
\* is cancelled and the state is Stopped, and a later transmit neither
\* acquires a slot nor submits.
C13_DetachCancelsAll ==
  ~present =>
    /\ can_state = "STOPPED"
    /\ InFlight = {}
    /\ rx = "none"
    /\ pc_x \notin {"scan", "dec", "read", "stop", "xmit"}

\* The number of frames handed to netif_rx for the first k messages of the
\* read: message k, when alloc_can_skb succeeded for it, is frame Rank(k).
Rank(k) == Cardinality({j \in 1 .. k : rx_skb[j]})

C15_CodecRoundTrip ==
  (/\ codec_pc = "parsed"
   /\ rx_len >= MSG_SIZE
   /\ MsgAt(rx_buf, 1) = usb_msg
   /\ rx_skb[1])
    => rx_frames[1] = tx_cf

\* The value of msg->bus_dat_len & PANDA_DLC_MASK for the k-th message of
\* the read, as the decoder loads it: the field's value mod 16.
DlcField(k) == ByteOf(Load32(SubSeq(MsgAt(rx_buf, k), 5, 8)), 0) % 16

\* C16: whatever the value v of a message's bus_dat_len field, the decoded
\* frame's DLC is min(v mod 16, 8), its first DLC data bytes are the
\* message's and the rest of the eight is untouched (zero).
C16_DlcClamped ==
  codec_pc = "parsed" =>
    \A k \in 1 .. Len(rx_skb) :
      rx_skb[k] =>
        LET f == rx_frames[Rank(k)]
            m == MsgAt(rx_buf, k)
            v == DlcField(k)
        IN  /\ f.can_dlc = (IF v < 8 THEN v ELSE 8)
            /\ DOMAIN f.data = 1 .. 8
            /\ \A j \in 1 .. 8 : f.data[j] = (IF j <= f.can_dlc THEN m[8 + j] ELSE 0)

\* A delivered frame of DLC 8 decoded from a message whose length field is
\* 15 mod 16.
C16_Witness ==
  /\ codec_pc = "parsed"
  /\ \E k \in 1 .. Len(rx_skb) :
       /\ rx_skb[k]
       /\ DlcField(k) = 15
       /\ rx_frames[Rank(k)].can_dlc = 8
       /\ rx_frames[Rank(k)].data = <<161, 162, 163, 164, 165, 166, 167, 168>>

\* C17: when bring-up has registered the device and started the RX loop,
\* the device stays registered and usable whatever the enable-output
\* command returns: probe does not end with the registration rolled back.
C17_EnableFailureKeepsDevice ==
  [][(life = "unbound" /\ rx' = "submitted") => life' = "down"]_vars

\* C18: every frame handed to the transmit path is counted exactly once
\* when its transfer is over: with the transmit path at rest, the calls so
\* far are the frames counted as sent, the frames counted as dropped and
\* the frames whose transfer is still in flight.
C18_TxAccounting ==
  pc_x = "idle" => xmits = tx_packets + tx_dropped + Cardinality(InFlight)

\* C19: while the device is Active, acquire never returns NULL to
\* panda_usb_start_xmit.
C19_AcquireNeverNull ==
  can_state = "ERROR_ACTIVE" => ~(pc_x = "xmit" /\ x_ctx = NULL)

\* C20: from the netif_stop_queue of close until the next open the queue
\* stays stopped and the state is Stopped, also while and after the handlers
\* of the transfers that close cancels run.
C20_QueueHaltedAfterClose ==
  (life \in {"close_rx", "close_tx"} \/ Closed) =>
    (queue_stopped /\ can_state = "STOPPED")
====
